---- MODULE Spec2Model ----
(***************************************************************************)
(* Model of soundtrack-analyzer: the signal analysis core of analyze.py    *)
(* (read_sound_file, patch_signal, get_bark_fraction, analyze_file), the   *)
(* CSV log of utils.write_csv, archive.archive_dir and the directory mode  *)
(* of analyze.main.                                                        *)
(*                                                                         *)
(* Conventions.  numpy arrays are sequences; Python index i is index i+1   *)
(* here.  Python floats are modelled as exact rationals [num, den] in      *)
(* lowest terms (den > 0), so equal values are equal records.  A function  *)
(* that can raise returns a record whose field err names the exception     *)
(* ("none" when it returns normally).                                      *)
(***************************************************************************)
EXTENDS Integers, Sequences, FiniteSets, TLC

VARIABLES
    \* ---- inputs and result of one call of the analysis functions ----
    frames,      \* the int16 frames of the mono .wav file / the array passed in
    nchannels,   \* wave.getnchannels()
    frame_rate,  \* wave.getframerate()
    cutoff,      \* the cutoff argument
    max_gap,     \* the max_gap argument (a rational)
    call,        \* which function has been called ("none" before the call)
    out,         \* what the call produced
    \* ---- utils.write_csv ----
    log,         \* the CSV file: NoFile or its sequence of rows
    args,        \* the arguments of the last write_csv call, after the call
    \* ---- archive.archive_dir ----
    arch,        \* file system and position of archive_dir
    \* ---- analyze.main, directory mode ----
    batch,       \* file system and position of main
    \* ---- archive.main on a year directory ----
    year,        \* the subfolders and position of main
    \* ---- batch_copy.get_filelist ----
    copy         \* the source directory, the destination and the result

vars == <<frames, nchannels, frame_rate, cutoff, max_gap, call, out,
          log, args, arch, batch, year, copy>>

funcVars  == <<frames, nchannels, frame_rate, cutoff, max_gap, call, out>>
csvVars   == <<log, args>>

----------------------------------------------------------------------------
(* Bounds of the model *)

MaxLen == 4          \* longest signal drawn

(* Program constants *)

SamplesPerSecond == 8000   \* 1 / 0.000125, analyze.py:157
Int16Min == -32768          \* np.int16, analyze.py:43
Int16Max == 32767           \* np.int16, analyze.py:43

(* Inputs drawn *)

FrameVals  == {Int16Min, -200, 0, 100, 200}
FrameRates == {8000, 16000}
Cutoffs    == {100, 199, Int16Max}

None == "None"

----------------------------------------------------------------------------
(* Exact arithmetic standing for Python floats *)

Abs(x) == IF x < 0 THEN -x ELSE x

RECURSIVE Gcd(_, _)
Gcd(a, b) == IF b = 0 THEN a ELSE Gcd(b, a % b)

\* n / d as a float (d # 0), in lowest terms with a positive denominator
Rat(n, d) ==
    LET s == IF d < 0 THEN -1 ELSE 1
        g == Gcd(Abs(n), Abs(d))
    IN  [num |-> (s * n) \div g, den |-> (s * d) \div g]

RatInt(k)    == Rat(k, 1)
RatMul(a, b) == Rat(a.num * b.num, a.den * b.den)
RatLe(a, b)  == a.num * b.den <= b.num * a.den

----------------------------------------------------------------------------
(* IEEE 754 binary64, for the one float operation whose rounding reaches an *)
(* integer comparison (max_gap /= 0.000125).  A double is                   *)
(* sign * (hi * 2^27 + lo) * 2^exp with 2^52 <= hi * 2^27 + lo < 2^53, or   *)
(* zero.  Numbers of up to 54 bits are pairs <<hi, lo>> of 27-bit limbs.    *)

Limb == 2^27

LimbDbl(a) == <<2 * a[1] + (2 * a[2]) \div Limb, (2 * a[2]) % Limb>>

LimbGe(a, b) == a[1] > b[1] \/ (a[1] = b[1] /\ a[2] >= b[2])

\* a - b for a >= b
LimbSub(a, b) ==
    IF a[2] >= b[2] THEN <<a[1] - b[1], a[2] - b[2]>>
    ELSE <<a[1] - b[1] - 1, a[2] + Limb - b[2]>>

LimbInc(a) == IF a[2] + 1 = Limb THEN <<a[1] + 1, 0>> ELSE <<a[1], a[2] + 1>>

DoubleZero == [sign |-> 0, hi |-> 0, lo |-> 0, exp |-> 0]

\* n.m * 2^n.e (n.m > 0) brought to a 53-bit significand; exact.  (Each
\* step's result is bound as a value before the next step uses it.)
RECURSIVE Normalize(_)
Normalize(n) ==
    IF n.m[1] >= 2^25 THEN n
    ELSE CHOOSE res \in {Normalize(t) :
                           t \in {[m |-> LimbDbl(n.m), e |-> n.e - 1]}} : TRUE

\* float(k) for an int k, |k| < 2^31; exact
DoubleOfInt(k) ==
    IF k = 0 THEN DoubleZero
    ELSE LET n == Normalize([m |-> <<Abs(k) \div Limb, Abs(k) % Limb>>,
                             e |-> 0])
         IN  [sign |-> IF k < 0 THEN -1 ELSE 1,
              hi |-> n.m[1], lo |-> n.m[2], exp |-> n.e]

\* one step of long division by b: the next quotient bit and the remainder
DivStep(s, b) ==
    CHOOSE res \in
        {IF LimbGe(r2, b) THEN [q |-> LimbInc(q2), r |-> LimbSub(r2, b)]
                          ELSE [q |-> q2, r |-> r2] :
           r2 \in {LimbDbl(s.r)}, q2 \in {LimbDbl(s.q)}} : TRUE

\* bits steps of long division
RECURSIVE DivBits(_, _, _)
DivBits(s, b, bits) ==
    IF bits = 0 THEN s
    ELSE CHOOSE res \in {DivBits(t, b, bits - 1) : t \in {DivStep(s, b)}} :
             TRUE

\* 53 quotient bits d.q and the remainder d.r of a division whose quotient
\* is in [1, 2), as a double: rounded to nearest by the next bit and the
\* rest of the remainder, ties to even
RoundQuotient(sign, e, d, b) ==
    CHOOSE res \in
        {[sign |-> sign,
          hi   |-> IF q[1] = 2^26 THEN 2^25 ELSE q[1],
          lo   |-> q[2],
          exp  |-> IF q[1] = 2^26 THEN e + 1 ELSE e] :
           q \in {IF \E r2 \in {LimbDbl(d.r)} :
                       /\ LimbGe(r2, b)
                       /\ (r2 # b \/ d.q[2] % 2 = 1)
                   THEN LimbInc(d.q) ELSE d.q}} : TRUE

\* x / y (y # 0), rounded to nearest, ties to even
DoubleDiv(x, y) ==
    IF x.sign = 0 THEN DoubleZero
    ELSE LET a  == <<x.hi, x.lo>>
             b  == <<y.hi, y.lo>>
             ge == LimbGe(a, b)
             n  == IF ge THEN a ELSE LimbDbl(a)
             e  == x.exp - y.exp - (IF ge THEN 52 ELSE 53)
         IN  CHOOSE res \in
                 {RoundQuotient(x.sign * y.sign, e, d, b) :
                    d \in {DivBits([q |-> <<0, 1>>, r |-> LimbSub(n, b)],
                                   b, 52)}} : TRUE

\* the double nearest to the rational r (a literal or an argument)
DoubleOfRat(r) ==
    CHOOSE res \in {DoubleDiv(x, y) : x \in {DoubleOfInt(r.num)},
                                      y \in {DoubleOfInt(r.den)}} : TRUE

\* floor(|x|) for |x| < 2^31
DoubleFloorAbs(x) ==
    LET s == -x.exp
    IN  IF x.sign = 0 \/ s > 52 THEN 0
        ELSE IF s >= 27 THEN x.hi \div 2^(s - 27)
        ELSE x.hi * 2^(27 - s) + x.lo \div 2^s

\* whether x is a whole number, |x| < 2^31
DoubleIsWhole(x) ==
    LET s == -x.exp
    IN  IF x.sign = 0 THEN TRUE
        ELSE IF s > 52 THEN FALSE
        ELSE IF s >= 27 THEN x.lo = 0 /\ x.hi % 2^(s - 27) = 0
        ELSE x.lo % 2^s = 0

\* k <= x for an int k and a double x
IntLeDouble(k, x) ==
    IF x.sign = 0 THEN k <= 0
    ELSE IF -x.exp < 22 THEN x.sign > 0          \* |x| >= 2^31
    ELSE IF x.sign > 0 THEN k <= DoubleFloorAbs(x)
    ELSE \/ DoubleFloorAbs(x) < -k
         \/ DoubleFloorAbs(x) = -k /\ DoubleIsWhole(x)

\* item <= max_gap, max_gap an int or exact value (a rational) or a double
ItemLeGap(item, gap) ==
    IF "num" \in DOMAIN gap THEN RatLe(RatInt(item), gap)
    ELSE IntLeDouble(item, gap)

\* the max-gap values drawn: 0, -1, whole numbers, and fractions of a second
MaxGaps == {RatInt(0), RatInt(-1), RatInt(1), RatInt(2),
            Rat(1, 16000), Rat(1, 8000), Rat(2, 8000)}

----------------------------------------------------------------------------
(* numpy helpers used by the source *)

\* np.abs on an int16 array: the absolute value wraps at the minimum
AbsInt16(x) == IF x = Int16Min THEN Int16Min ELSE Abs(x)

\* np.linspace(0, stop, num=num), endpoint included
Linspace(stop, num) ==
    [i \in 1..num |->
        IF num = 1 THEN RatInt(0)
        ELSE IF i = num THEN stop
        ELSE Rat((i - 1) * stop.num, (num - 1) * stop.den)]

\* np.count_nonzero(signal > cutoff)
CountHigh(signal, c) == Cardinality({i \in 1..Len(signal) : signal[i] > c})

\* np.where(b)[0]: the (Python) indices where b holds, ascending
RECURSIVE Where(_, _)
Where(b, i) ==
    IF i > Len(b) THEN <<>>
    ELSE (IF b[i] THEN <<i - 1>> ELSE <<>>) \o Where(b, i + 1)

\* np.diff
Diff(s) == [i \in 1..(Len(s) - 1) |-> s[i + 1] - s[i]]

----------------------------------------------------------------------------
(* analyze.read_sound_file *)

ReadSoundFile(fr, nch, rate) ==
    IF nch = 2
    THEN [err |-> "ValueError", time |-> <<>>, signal |-> <<>>]
    ELSE LET signal == [i \in 1..Len(fr) |-> AbsInt16(fr[i])]
             time   == Linspace(Rat(Len(signal), rate), Len(signal))
         IN  [err |-> "none", time |-> time, signal |-> signal]

----------------------------------------------------------------------------
(* analyze.patch_signal *)

\* lines 118-123: the mask is taken so that mask[0] is True, and below says
\* whether the first run is a low run.  The signal is non-empty here.
PatchStartAlwaysBelow(signal, c) ==
    [mask  |-> [i \in 1..Len(signal) |-> signal[i] <= c],
     below |-> TRUE]

PatchStart(signal, c) ==
    IF signal[1] > c
    THEN [mask  |-> [i \in 1..Len(signal) |-> signal[i] > c],
          below |-> FALSE]
    ELSE [mask  |-> [i \in 1..Len(signal) |-> signal[i] <= c],
          below |-> TRUE]

\* np.concatenate(([mask[0]], mask[:-1] != mask[1:], [True]))
RunStarts(mask) ==
    <<mask[1]>>
    \o [i \in 1..(Len(mask) - 1) |-> mask[i] # mask[i + 1]]
    \o <<TRUE>>

\* the same without the closing [True]: the last run is not delimited
RunLengthsNoTail(mask) ==
    Diff(Where(<<mask[1]>>
               \o [i \in 1..(Len(mask) - 1) |-> mask[i] # mask[i + 1]], 1))

\* lines 128-130: the lengths of the maximal runs of the mask, in order
RunLengths(mask) == Diff(Where(RunStarts(mask), 1))

\* the same with the run length compared one too low
RECURSIVE GapsOffByOne(_, _, _, _, _)
GapsOffByOne(result, k, index, below, gap) ==
    IF k > Len(result) THEN {}
    ELSE (IF below /\ ItemLeGap(result[k] - 1, gap)
          THEN index .. (index + result[k] - 1) ELSE {})
         \cup GapsOffByOne(result, k + 1, index + result[k], ~below, gap)

\* lines 131-136 from the k-th run on: the (Python) indices to patch
RECURSIVE Gaps(_, _, _, _, _)
Gaps(result, k, index, below, gap) ==
    IF k > Len(result) THEN {}
    ELSE (IF below /\ ItemLeGap(result[k], gap)
          THEN index .. (index + result[k] - 1) ELSE {})
         \cup Gaps(result, k + 1, index + result[k], ~below, gap)

\* line 138, the right-hand side: the Python int v converted to the dtype
\* of the array.  Out of the bounds of int16 it wraps (NumPy 1.x) or raises
\* (NumPy 2.x), whichever NumPy is installed: wraps tells which.
Converted(v, dtype, wraps) ==
    IF dtype = "int64" \/ (Int16Min <= v /\ v <= Int16Max)
    THEN [err |-> "none", value |-> v]
    ELSE IF wraps
         THEN [err   |-> "none",
               value |-> ((v - Int16Min) % (2 * (Int16Max + 1))) + Int16Min]
         ELSE [err |-> "OverflowError", value |-> v]

\* patch_signal on an array of the given dtype: "int64" for np.array of
\* Python ints, "int16" for the array read_sound_file returns
PatchSignal(signal, c, gap, dtype, wraps) ==
    IF Len(signal) = 0
    THEN [err |-> "IndexError", signal |-> signal]      \* signal[0]
    ELSE LET st   == PatchStart(signal, c)
             gaps == Gaps(RunLengths(st.mask), 1, 0, st.below, gap)
             fill == Converted(c + 1, dtype, wraps)
         IN  IF fill.err # "none"
             THEN [err |-> fill.err, signal |-> signal]
             ELSE [err    |-> "none",
                   signal |-> [i \in 1..Len(signal) |->
                                 IF (i - 1) \in gaps THEN fill.value
                                 ELSE signal[i]]]

----------------------------------------------------------------------------
(* analyze.get_bark_fraction; max_gap is in seconds *)

\* the literal 0.000125: the double 0x1.0624dd2f1a9fcp-13
SecondsPerSample ==
    [sign |-> 1, hi |-> 34359738, lo |-> 49392124, exp |-> -65]

\* max_gap / 0.000125, a float division
GapQuotient(gap) ==
    CHOOSE res \in {DoubleDiv(x, SecondsPerSample) :
                       x \in {DoubleOfRat(gap)}} : TRUE

\* the gaps whose quotient is computed once
KnownGaps == MaxGaps \cup {RatInt(5)}

KnownQuotients == {<<gap, GapQuotient(gap)>> : gap \in KnownGaps}

\* line 157: max_gap /= 0.000125
GapToSamples(gap) ==
    CHOOSE res \in
        {p[2] : p \in {q \in KnownQuotients : q[1] = gap}}
            \cup (IF gap \in KnownGaps THEN {} ELSE {GapQuotient(gap)}) : TRUE

\* lines 155 and 159: np.count_nonzero(signal > cutoff) / len(signal)
FractionCountGe(signal, c) ==
    IF Len(signal) = 0
    THEN [err |-> "ZeroDivisionError", value |-> None, divided |-> TRUE]
    ELSE [err     |-> "none",
          value   |-> Rat(Cardinality({i \in 1..Len(signal) : signal[i] >= c}),
                          Len(signal)),
          divided |-> TRUE]

Fraction(signal, c) ==
    IF Len(signal) = 0
    THEN [err |-> "ZeroDivisionError", value |-> None, divided |-> TRUE]
    ELSE [err     |-> "none",
          value   |-> Rat(CountHigh(signal, c), Len(signal)),
          divided |-> TRUE]

GetBarkFraction(signal, c, gap, dtype, wraps) ==
    IF RatLe(gap, RatInt(0))
    THEN Fraction(signal, c)
    ELSE LET p == CHOOSE res \in
                      {PatchSignal(signal, c, samples, dtype, wraps) :
                         samples \in {GapToSamples(gap)}} : TRUE
         IN  IF p.err # "none"
             THEN [err |-> p.err, value |-> None, divided |-> FALSE]
             ELSE Fraction(p.signal, c)

----------------------------------------------------------------------------
(* analyze.analyze_file on a decoded mono waveform *)

Failed(e, r, divided) ==
    [err |-> e, time |-> r.time, signal |-> r.signal, total_time |-> None,
     bark_fraction |-> None, bark_time |-> None, divided |-> divided,
     plotted |-> FALSE, result |-> None]

\* wraps: whether the NumPy installed wraps an out-of-bounds Python int
AnalyzeFile(fr, nch, rate, c, gap, wraps) ==
    LET r == ReadSoundFile(fr, nch, rate)
    IN  IF r.err # "none" THEN Failed(r.err, r, FALSE)
        ELSE IF Len(r.time) = 0 THEN Failed("IndexError", r, FALSE) \* time[-1]
        ELSE LET total_time == r.time[Len(r.time)]
                 bf         == GetBarkFraction(r.signal, c, gap, "int16", wraps)
             IN  IF bf.err # "none" THEN Failed(bf.err, r, bf.divided)
                 ELSE LET bark_time == RatMul(total_time, bf.value)
                      IN  [err |-> "none", time |-> r.time,
                           signal |-> r.signal,
                           total_time |-> total_time,
                           bark_fraction |-> bf.value,
                           bark_time |-> bark_time,
                           divided |-> TRUE,
                           plotted |-> TRUE,
                           result |-> [total_time |-> total_time,
                                       bark_time  |-> bark_time]]

----------------------------------------------------------------------------
(* The analysis functions applied to every input drawn *)

Signals == UNION {[1..n -> FrameVals] : n \in 0..MaxLen}

FuncInit ==
    /\ frames \in Signals
    /\ nchannels \in {1, 2}
    /\ frame_rate \in FrameRates
    /\ cutoff \in Cutoffs
    /\ max_gap \in MaxGaps
    /\ call = "none"
    /\ out = None

\* patch_signal(np.array(frames), cutoff, max_gap), max_gap in samples
PatchSignalCall ==
    /\ call = "none"
    /\ call' = "patch_signal"
    /\ out' = PatchSignal(frames, cutoff, max_gap, "int64", TRUE)
    /\ UNCHANGED <<frames, nchannels, frame_rate, cutoff, max_gap>>
    /\ UNCHANGED <<csvVars, arch, batch, year, copy>>

\* get_bark_fraction(np.array(frames), cutoff, max_gap), max_gap in seconds
GetBarkFractionCall ==
    /\ call = "none"
    /\ call' = "get_bark_fraction"
    /\ out' = GetBarkFraction(frames, cutoff, max_gap, "int64", TRUE)
    /\ UNCHANGED <<frames, nchannels, frame_rate, cutoff, max_gap>>
    /\ UNCHANGED <<csvVars, arch, batch, year, copy>>

ReadSoundFileCall ==
    /\ call = "none"
    /\ call' = "read_sound_file"
    /\ out' = ReadSoundFile(frames, nchannels, frame_rate)
    /\ UNCHANGED <<frames, nchannels, frame_rate, cutoff, max_gap>>
    /\ UNCHANGED <<csvVars, arch, batch, year, copy>>

AnalyzeFileCall ==
    /\ call = "none"
    /\ call' = "analyze_file"
    /\ \E wraps \in BOOLEAN :
          out' = AnalyzeFile(frames, nchannels, frame_rate, cutoff, max_gap,
                             wraps)
    /\ UNCHANGED <<frames, nchannels, frame_rate, cutoff, max_gap>>
    /\ UNCHANGED <<csvVars, arch, batch, year, copy>>

FuncIdle ==
    /\ frames = <<>> /\ nchannels = 1 /\ frame_rate = 8000
    /\ cutoff = 100 /\ max_gap = RatInt(0) /\ call = "none" /\ out = None

\* summary.csv before it is first written, and no write_csv call made yet
NoLog  == [is_file |-> FALSE, rows |-> <<>>]
NoArgs == [rows |-> <<>>, overwrite |-> FALSE, rows_after |-> <<>>]

CsvIdle   == log = NoLog /\ args = NoArgs
\* a month directory without recordings, archive_dir not called
NoTgz == [is_file |-> FALSE, members |-> {}]
NoDir == [is_dir |-> FALSE, members |-> {}]
ArchIdle ==
    arch = [pc |-> "idle", mp4 |-> {}, tgz |-> NoTgz, files |-> {}, cur |-> 0,
            temp |-> NoDir, temp_tgz |-> NoTgz, unlinked |-> {}, seen |-> {}]
\* analyze.main not started, no recording in the directory
BatchIdle ==
    batch = [pc |-> "idle", recs |-> <<>>, png |-> {}, rewrite |-> FALSE,
             list |-> <<>>, fut |-> <<>>, next |-> 1, cancel |-> 0,
             results |-> <<>>]

\* archive.main not called, no subfolder
YearIdle ==
    year = [pc |-> "idle", err |-> "none", before |-> <<>>, folders |-> <<>>,
            archive_all |-> FALSE, subfolders |-> <<>>, run |-> <<>>,
            next |-> 0, cancel |-> 0]
\* batch_copy.get_filelist not called, empty source directory
CopyIdle ==
    copy = [pc |-> "idle", source_dir |-> <<>>, files |-> <<>>,
            cutoff_date |-> <<>>, err |-> "none", result |-> <<>>]

FuncNext ==
    \/ PatchSignalCall
    \/ GetBarkFractionCall
    \/ ReadSoundFileCall
    \/ AnalyzeFileCall

Init == FuncInit /\ CsvIdle /\ ArchIdle /\ BatchIdle /\ YearIdle /\ CopyIdle
Next == FuncNext
Spec == Init /\ [][Next]_vars

----------------------------------------------------------------------------
(* Properties of the analysis functions, checked under Spec *)

N == Len(frames)

IsLow(s, c, i) == s[i] <= c

\* the length of the maximal run of samples <= c that holds index i
LowRunLength(s, c, i) ==
    Cardinality({j \in 1..Len(s) :
        \A k \in 1..Len(s) :
            ((j <= k /\ k <= i) \/ (i <= k /\ k <= j)) => IsLow(s, c, k)})

InShortLowRun(s, c, i, gap) ==
    IsLow(s, c, i) /\ RatLe(RatInt(LowRunLength(s, c, i)), gap)

PatchedOk == call = "patch_signal" /\ N >= 1

C9_HighSamplesKept ==
    PatchedOk =>
        /\ \A i \in 1..N : frames[i] > cutoff => out.signal[i] = frames[i]
        /\ CountHigh(out.signal, cutoff) >= CountHigh(frames, cutoff)

\* a call that patched a low sample next to a high one
C9_Witness_PatchedBesideHigh ==
    /\ PatchedOk
    /\ \E i \in 1..N : frames[i] > cutoff
    /\ \E i \in 1..N : out.signal[i] # frames[i]

\* C8: with max_gap = 0 patch_signal is the identity, and get_bark_fraction
\* with max_gap <= 0 returns count(sample > cutoff) / N of the unpatched
\* signal, the value that patching with max_gap = 0 and counting gives.
C8_ZeroGapIsIdentity ==
    /\ (PatchedOk /\ max_gap = RatInt(0)) =>
            (out.err = "none" /\ out.signal = frames)
    /\ (call = "get_bark_fraction" /\ RatLe(max_gap, RatInt(0)) /\ N >= 1) =>
            /\ out.err = "none"
            /\ out.value = Rat(CountHigh(frames, cutoff), N)
            /\ out.value =
                 Fraction(PatchSignal(frames, cutoff, RatInt(0),
                                      "int64", TRUE).signal,
                          cutoff).value

\* the fast path taken on a signal that has a low sample beside a high one
C8_Witness_FastPath ==
    /\ call = "get_bark_fraction" /\ max_gap = RatInt(0) /\ N >= 2
    /\ \E i \in 1..N : frames[i] > cutoff
    /\ \E i \in 1..N : frames[i] <= cutoff
    /\ out.err = "none"

Analyzed == call = "analyze_file" /\ out.err = "none"

\* C4: for N >= 1 samples at sample rate r, the total_time analyze_file
\* reports is (N - 1) * s, s = 1 / r, and not N * s.
C4_TotalTimeIsNMinusOneSteps ==
    Analyzed => out.total_time = Rat(N - 1, frame_rate)

\* the signal after the patching analyze_file applies, for an analysis
\* that ended normally
PatchedForAnalysis ==
    IF RatLe(max_gap, RatInt(0)) THEN out.signal
    ELSE CHOOSE res \in
             {PatchSignal(out.signal, cutoff, samples, "int16", TRUE).signal :
                samples \in {GapToSamples(max_gap)}} : TRUE

\* C10: bark_time = total_time * (samples > cutoff after patching) / N, so
\* 0 <= bark_time <= total_time, with equality when every sample is high.
C10_BarkTimeIsFractionOfTotal ==
    Analyzed =>
        /\ out.bark_time =
             RatMul(out.total_time,
                    Rat(CountHigh(PatchedForAnalysis, cutoff), N))
        /\ RatLe(RatInt(0), out.bark_time)
        /\ RatLe(out.bark_time, out.total_time)
        /\ (\A i \in 1..N : out.signal[i] > cutoff) =>
                out.bark_time = out.total_time
        /\ out.result = [total_time |-> out.total_time,
                         bark_time  |-> out.bark_time]

\* an analysis whose bark time is a proper part of the total time
C10_Witness_ProperFraction ==
    /\ Analyzed
    /\ out.bark_time # RatInt(0)
    /\ out.bark_time # out.total_time

\* C5 as stated: the gap in seconds is converted with the sample rate of the
\* signal analysed, max_gap_samples = max_gap * frame_rate.
C5_GapConvertedWithSignalRate ==
    (Analyzed /\ ~RatLe(max_gap, RatInt(0))) =>
        out.bark_fraction =
            Fraction(PatchSignal(out.signal, cutoff,
                                 RatMul(max_gap, RatInt(frame_rate)),
                                 "int16", TRUE).signal,
                     cutoff).value

\* C6 as stated: an empty signal is rejected with an "empty signal" error,
\* before any division by the sample count, and nothing is produced.
C6_EmptySignalRejected ==
    N = 0 =>
        /\ call = "patch_signal" => out.err = "EmptySignalError"
        /\ call = "get_bark_fraction" =>
                (out.err = "EmptySignalError" /\ ~out.divided)
        /\ (call = "analyze_file" /\ nchannels = 1) =>
                /\ out.err = "EmptySignalError"
                /\ ~out.divided /\ ~out.plotted /\ out.result = None

----------------------------------------------------------------------------
(* utils.write_csv.  A file is [is_file, rows]; a row is the tuple of the    *)
(* strings csv.writer writes for it.                                       *)

MaxRows    == 2      \* most rows passed to one write_csv call
MaxLogRows == 4      \* calls that would make the log longer are not drawn

Header == <<"timestamp", "total_time", "bark_time">>

\* rows of AnalysisResult values as csv.writer renders them
DataRows == {<<"2023-07-05 07:50:56", "8.0", "2.0">>,
             <<"2023-10-12 18:27:32", "4.0", "0.0">>,
             <<"2023-12-15 09:36:53", "4.0", "4.0">>}

RowLists == UNION {[1..n -> DataRows] : n \in 0..MaxRows}

\* the header inserted on every call, also when the rows are appended
WriteCsvHeaderAlways(file, rows, overwrite) ==
    LET r == <<Header>> \o rows
    IN  IF file.is_file /\ ~overwrite
        THEN [file |-> [is_file |-> TRUE, rows |-> file.rows \o r], rows |-> r]
        ELSE [file |-> [is_file |-> TRUE, rows |-> r], rows |-> r]

\* file: the file after the call; rows: the caller's list after the call
\* (rows.insert(0, header) changes it in place)
WriteCsv(file, rows, overwrite) ==
    IF file.is_file /\ ~overwrite
    THEN [file |-> [is_file |-> TRUE, rows |-> file.rows \o rows],
          rows |-> rows]
    ELSE LET r == <<Header>> \o rows
         IN  [file |-> [is_file |-> TRUE, rows |-> r], rows |-> r]

WriteCsvCall ==
    \E rows \in RowLists, overwrite \in BOOLEAN :
        /\ (log.is_file /\ ~overwrite) =>
                Len(log.rows) + Len(rows) <= MaxLogRows
        /\ LET w == WriteCsv(log, rows, overwrite)
           IN  /\ log' = w.file
               /\ args' = [rows |-> rows, overwrite |-> overwrite,
                           rows_after |-> w.rows]
        /\ UNCHANGED <<funcVars, arch, batch, year, copy>>

CsvInit ==
    FuncIdle /\ CsvIdle /\ ArchIdle /\ BatchIdle /\ YearIdle /\ CopyIdle
CsvNext == WriteCsvCall
SpecCsv == CsvInit /\ [][CsvNext]_vars

HeaderOnceFirst ==
    log.is_file =>
        /\ Len(log.rows) >= 1
        /\ log.rows[1] = Header
        /\ \A i \in 2..Len(log.rows) : log.rows[i] # Header

\* what one call does to the file, args' holding the call's arguments
WriteStep ==
    /\ log'.is_file
    /\ log'.rows = IF ~log.is_file \/ args'.overwrite
                   THEN <<Header>> \o args'.rows
                   ELSE log.rows \o args'.rows

\* C7: after any sequence of write_csv calls on one path the file has the
\* header row exactly once, as its first row; a call writes the header (and
\* drops the earlier content) exactly when the file did not exist or
\* overwrite is set, and otherwise appends its rows without a header.
C7_HeaderOnceAndFirst == []HeaderOnceFirst /\ [][WriteStep]_csvVars

\* rows appended, without overwrite, to a log that already held data rows
C7_Witness_AppendedToLog ==
    /\ log.is_file /\ ~args.overwrite
    /\ Len(args.rows) >= 1
    /\ Len(log.rows) > 1 + Len(args.rows)
    /\ args.rows_after = args.rows

----------------------------------------------------------------------------
(* archive.archive_dir on one month directory.                             *)
(* arch.mp4: the .mp4 files of path; arch.tgz: path/recordings.tgz;        *)
(* arch.temp: temp_dir ("recordings" in the TemporaryDirectory);           *)
(* arch.temp_tgz: the recordings.tgz beside it; arch.files: the files the  *)
(* loop has not handled yet; arch.cur: the file copied and not yet         *)
(* unlinked; arch.unlinked: every file archive_dir has unlinked so far.    *)

MaxFiles == 3        \* recordings that can reach the directory

Names == 1..MaxFiles

ArchInit ==
    /\ FuncIdle /\ CsvIdle /\ BatchIdle /\ YearIdle /\ CopyIdle
    /\ \E present \in SUBSET Names :
          arch = [pc |-> "idle", mp4 |-> present, tgz |-> NoTgz,
                  files |-> {}, cur |-> 0, temp |-> NoDir,
                  temp_tgz |-> NoTgz, unlinked |-> {}, seen |-> present]

ArchStopped == arch.pc \in {"idle", "returned", "raised"}

\* a new recording is copied into the directory between two calls
Arrive ==
    /\ ArchStopped
    /\ \E f \in Names \ arch.seen :
          arch' = [arch EXCEPT !.mp4 = @ \cup {f}, !.seen = @ \cup {f}]
    /\ UNCHANGED <<funcVars, csvVars, batch, year, copy>>

\* lines 14-20: glob, return when there is nothing, else make temp_dir
ArchiveDirStart ==
    /\ ArchStopped
    /\ arch' = IF arch.mp4 = {}
               THEN [arch EXCEPT !.pc = "returned"]
               ELSE [arch EXCEPT !.pc = "copy", !.files = arch.mp4,
                                 !.temp = [is_dir |-> TRUE, members |-> {}]]
    /\ UNCHANGED <<funcVars, csvVars, batch, year, copy>>

\* line 23: shutil.copy(file, temp_dir / file.name)
CopyToTemp ==
    /\ arch.pc = "copy"
    /\ \E f \in arch.files :
          arch' = [arch EXCEPT !.pc = "unlink", !.cur = f,
                               !.temp.members = @ \cup {f}]
    /\ UNCHANGED <<funcVars, csvVars, batch, year, copy>>

\* line 24: file.unlink()
Unlink ==
    /\ arch.pc = "unlink"
    /\ arch' = [arch EXCEPT
                  !.pc = IF arch.files = {arch.cur} THEN "archive" ELSE "copy",
                  !.mp4 = @ \ {arch.cur},
                  !.files = @ \ {arch.cur},
                  !.unlinked = @ \cup {arch.cur},
                  !.cur = 0]
    /\ UNCHANGED <<funcVars, csvVars, batch, year, copy>>

\* line 26: create_archive(str(temp_dir)), which may leave no recordings.tgz
CreateArchive ==
    /\ arch.pc = "archive"
    /\ \E made \in BOOLEAN :
          arch' = [arch EXCEPT
                     !.pc = "assert",
                     !.temp_tgz = IF made
                                  THEN [is_file |-> TRUE,
                                        members |-> arch.temp.members]
                                  ELSE NoTgz]
    /\ UNCHANGED <<funcVars, csvVars, batch, year, copy>>

\* line 29: assert archive.is_file()
AssertArchive ==
    /\ arch.pc = "assert"
    /\ arch' = IF arch.temp_tgz.is_file
               THEN [arch EXCEPT !.pc = "final"]
               ELSE [arch EXCEPT !.pc = "raised", !.temp = NoDir,
                                 !.temp_tgz = NoTgz, !.files = {}]
    /\ UNCHANGED <<funcVars, csvVars, batch, year, copy>>

\* line 31 and the end of the with block: the archive replaces
\* path/recordings.tgz, and the TemporaryDirectory is removed
FinalCopy ==
    /\ arch.pc = "final"
    /\ arch' = [arch EXCEPT !.pc = "returned", !.tgz = arch.temp_tgz,
                            !.temp = NoDir, !.temp_tgz = NoTgz]
    /\ UNCHANGED <<funcVars, csvVars, batch, year, copy>>

\* a step raises (shutil.copy, unlink, create_archive, the final copy): the
\* exception leaves the with block, which removes the TemporaryDirectory.
\* A final copy that fails may have truncated path/recordings.tgz.
StepRaises ==
    /\ arch.pc \in {"copy", "unlink", "archive", "final"}
    /\ \E truncated \in BOOLEAN :
          /\ truncated => arch.pc = "final"
          /\ arch' = [arch EXCEPT
                        !.pc = "raised", !.temp = NoDir, !.temp_tgz = NoTgz,
                        !.files = {}, !.cur = 0,
                        !.tgz = IF truncated
                                THEN [is_file |-> TRUE, members |-> {}]
                                ELSE @]
    /\ UNCHANGED <<funcVars, csvVars, batch, year, copy>>

ArchNext ==
    \/ Arrive
    \/ ArchiveDirStart
    \/ CopyToTemp
    \/ Unlink
    \/ CreateArchive
    \/ AssertArchive
    \/ FinalCopy
    \/ StepRaises

SpecArchive == ArchInit /\ [][ArchNext]_vars

\* a copy of recording f exists: in path/recordings.tgz, or, while the
\* TemporaryDirectory exists, in temp_dir or in the archive made from it
HasCopy(f) ==
    \/ f \in arch.tgz.members
    \/ f \in arch.temp.members
    \/ f \in arch.temp_tgz.members

\* C2: at every point of archive_dir, also after a step has failed, a source
\* .mp4 that has been deleted has a copy (here in the most lenient sense: the
\* copies in the temporary directory count for as long as it exists).
C2_DeletedOnlyWithCopy ==
    \A f \in arch.unlinked : HasCopy(f)

----------------------------------------------------------------------------
(* analyze.main in directory mode, run again and again on one directory    *)
(* that holds the recordings Names.                                        *)
(* batch.recs[f]: the decoded waveform of recording f; batch.png: the      *)
(* recordings that have their .png; log: summary.csv; batch.list:          *)
(* input_files; batch.fut[f]: the state of the future process_map holds    *)
(* for f; batch.next: the place in input_files of the next result main     *)
(* takes; batch.results: the results taken so far; batch.cancel: the place *)
(* in input_files of the next future Executor.map cancels after an         *)
(* exception.                                                              *)

\* an empty waveform (analyze_file raises on it) and one with sound
Recordings == {<<>>, <<6000, 0>>}

\* analyze_file as main calls it with the defaults of parse_args
\* (cutoff 5000, max_gap 5 s) on a mono recording; 5001 is within int16,
\* so the NumPy installed makes no difference
AnalyzeRecording(rec) ==
    AnalyzeFile(rec, 1, SamplesPerSecond, 5000, RatInt(5), TRUE)

\* the AnalysisResult of recording f as csv.writer writes it
ResultRow(f, r) ==
    <<ToString(f), ToString(r.result.total_time), ToString(r.result.bark_time)>>

\* get_filelist (analyze.py): every .mp4, or those without a .png
GetFilelist(rewrite, png) ==
    IF rewrite THEN Names ELSE {f \in Names : f \notin png}

\* the orders in which glob can list the files fs
Orders(fs) ==
    {o \in [1..Cardinality(fs) -> fs] :
        \A i, j \in 1..Cardinality(fs) : i # j => o[i] # o[j]}

BatchInit ==
    /\ FuncIdle /\ CsvIdle /\ ArchIdle /\ YearIdle /\ CopyIdle
    /\ \E recs \in [Names -> Recordings] :
          batch = [pc |-> "idle", recs |-> recs, png |-> {},
                   rewrite |-> FALSE, list |-> <<>>,
                   fut |-> [f \in Names |-> "none"], next |-> 1,
                   cancel |-> 0, results |-> <<>>]

\* lines 315-326: get_filelist, and process_map submits every file
MainStart ==
    /\ batch.pc \in {"idle", "done", "raised"}
    /\ \E rewrite \in BOOLEAN :
       \E list \in Orders(GetFilelist(rewrite, batch.png)) :
          batch' = [batch EXCEPT
                      !.pc = "running", !.rewrite = rewrite, !.list = list,
                      !.fut = [f \in Names |->
                                 IF \E i \in 1..Len(list) : list[i] = f
                                 THEN "pending" ELSE "none"],
                      !.next = 1, !.cancel = 0, !.results = <<>>]
    /\ UNCHANGED <<funcVars, csvVars, arch, year, copy>>

\* what a worker's analyze_file(f, ..., "auto") leaves: the future's state
\* and the .png files
Worked(f, b) ==
    LET r == AnalyzeRecording(b.recs[f])
    IN  IF r.err = "none"
        THEN [b EXCEPT !.fut[f] = "done", !.png = @ \cup {f}]
        ELSE [b EXCEPT !.fut[f] = "raised"]

\* the pool hands the next submitted file, in the order of input_files, to
\* a worker: from then on the future cannot be cancelled; the pool goes on
\* doing so while main cancels futures
WorkerTakes ==
    /\ batch.pc \in {"running", "unwinding"}
    /\ \E k \in 1..Len(batch.list) :
          /\ batch.fut[batch.list[k]] = "pending"
          /\ \A i \in 1..(k - 1) : batch.fut[batch.list[i]] # "pending"
          /\ batch' = [batch EXCEPT !.fut[batch.list[k]] = "started"]
    /\ UNCHANGED <<funcVars, csvVars, arch, year, copy>>

\* a worker process runs analyze_file on a file it has taken; this also
\* happens while the pool shuts down after an exception
WorkerRuns ==
    /\ batch.pc \in {"running", "unwinding"}
    /\ \E f \in Names :
          /\ batch.fut[f] = "started"
          /\ batch' = Worked(f, batch)
    /\ UNCHANGED <<funcVars, csvVars, arch, year, copy>>

\* main takes the next result, in the order of input_files
TakeResult ==
    /\ batch.pc = "running"
    /\ batch.next <= Len(batch.list)
    /\ LET f == batch.list[batch.next]
       IN  /\ batch.fut[f] = "done"
           /\ batch' = [batch EXCEPT
                          !.next = @ + 1,
                          !.results = Append(@,
                              ResultRow(f, AnalyzeRecording(batch.recs[f])))]
    /\ UNCHANGED <<funcVars, csvVars, arch, year, copy>>

\* the next result is an exception: process_map re-raises it, and the
\* iterator of Executor.map turns to the futures after it, the last one
\* submitted first
TakeResultRaises ==
    /\ batch.pc = "running"
    /\ batch.next <= Len(batch.list)
    /\ batch.fut[batch.list[batch.next]] = "raised"
    /\ batch' = [batch EXCEPT !.pc = "unwinding",
                              !.cancel = Len(batch.list)]
    /\ UNCHANGED <<funcVars, csvVars, arch, year, copy>>

\* one future.cancel() of that loop: a pending future is cancelled, one a
\* worker has taken or ended is left as it is
CancelFuture ==
    /\ batch.pc = "unwinding"
    /\ batch.cancel > batch.next
    /\ LET f == batch.list[batch.cancel]
       IN  batch' = [batch EXCEPT
                       !.cancel = @ - 1,
                       !.fut[f] = IF @ = "pending" THEN "cancelled" ELSE @]
    /\ UNCHANGED <<funcVars, csvVars, arch, year, copy>>

\* every future after the raised one has had its cancel() and the pool has
\* shut down, waiting for the workers that had taken a file: the exception
\* leaves process_map and main; write_csv is not reached
MainRaises ==
    /\ batch.pc = "unwinding"
    /\ batch.cancel = batch.next
    /\ \A f \in Names : batch.fut[f] # "started"
    /\ batch' = [batch EXCEPT !.pc = "raised"]
    /\ UNCHANGED <<funcVars, csvVars, arch, year, copy>>

\* lines 327-328: write_csv(results, summary_file, overwrite=args.rewrite)
WriteSummary ==
    /\ batch.pc = "running"
    /\ batch.next > Len(batch.list)
    /\ LET w == WriteCsv(log, batch.results, batch.rewrite)
       IN  /\ log' = w.file
           /\ args' = [rows |-> batch.results, overwrite |-> batch.rewrite,
                       rows_after |-> w.rows]
           /\ batch' = [batch EXCEPT !.pc = "done", !.results = w.rows]
    /\ UNCHANGED <<funcVars, arch, year, copy>>

BatchNext ==
    \/ MainStart
    \/ WorkerTakes
    \/ WorkerRuns
    \/ TakeResult
    \/ TakeResultRaises
    \/ CancelFuture
    \/ MainRaises
    \/ WriteSummary

SpecBatch == BatchInit /\ [][BatchNext]_vars

InList(f)  == \E i \in 1..Len(batch.list) : batch.list[i] = f
InLog(row) == \E i \in 1..Len(log.rows) : log.rows[i] = row
Analysable(f) == AnalyzeRecording(batch.recs[f]).err = "none"

\* C3: in directory mode, when the analysis of one input file raises, the
\* batch is not aborted: once main has ended, every other input file of the
\* run has been analysed and its result is in summary.csv.
C3_FailureDoesNotAbortBatch ==
    batch.pc \in {"done", "raised"} =>
        \A f \in Names :
            (InList(f) /\ Analysable(f)) =>
                /\ batch.fut[f] = "done"
                /\ InLog(ResultRow(f, AnalyzeRecording(batch.recs[f])))

----------------------------------------------------------------------------
(* The amplitudes read_sound_file returns, checked under Spec *)

\* C11: every amplitude read_sound_file produces from signed 16-bit frames is
\* non-negative, whatever the frame values are (the minimum -32768 included).
C11_AmplitudesNonNegative ==
    (call = "read_sound_file" /\ out.err = "none") =>
        \A i \in 1..Len(out.signal) : out.signal[i] >= 0

----------------------------------------------------------------------------
(* Directory-mode runs of analyze.main without --rewrite *)

\* main started with args.rewrite False
MainStartAppend == MainStart /\ ~batch'.rewrite

BatchAppendNext ==
    \/ MainStartAppend
    \/ WorkerTakes
    \/ WorkerRuns
    \/ TakeResult
    \/ TakeResultRaises
    \/ CancelFuture
    \/ MainRaises
    \/ WriteSummary

SpecBatchAppend == BatchInit /\ [][BatchAppendNext]_vars

\* C14: across runs of main in directory mode without --rewrite, also runs in
\* which an analysis raises, once a run has ended every recording that has
\* its .png (and is skipped by get_filelist from then on) has its result row
\* in summary.csv.
C14_PlottedFilesAreLogged ==
    batch.pc \in {"done", "raised"} =>
        \A f \in batch.png :
            InLog(ResultRow(f, AnalyzeRecording(batch.recs[f])))

----------------------------------------------------------------------------
(* archive_dir called again and again on one directory, no step failing *)

\* create_archive leaves temp_dir.parent / "recordings.tgz"
CreateArchiveMade == CreateArchive /\ arch'.temp_tgz.is_file

ArchOkNext ==
    \/ Arrive
    \/ ArchiveDirStart
    \/ CopyToTemp
    \/ Unlink
    \/ CreateArchiveMade
    \/ AssertArchive
    \/ FinalCopy

SpecArchiveOk == ArchInit /\ [][ArchOkNext]_vars

\* C15: across archive_dir calls on one directory, with new .mp4 files
\* arriving between them, a recording contained in path/recordings.tgz is
\* still contained in it after every later step.
C15_ArchivedStaysArchived ==
    [][\A f \in arch.tgz.members : f \in arch'.tgz.members]_vars

----------------------------------------------------------------------------
(* archive.main on a year directory: a directory that holds no .mp4       *)
(* itself, with subfolders named by numbers.                               *)
(* year.folders[n]: subfolder n, [mp4: its .mp4 files, tgz: whether it has *)
(* a recordings.tgz]; year.before: the subfolders when main was called;    *)
(* year.subfolders: the list handed to thread_map; year.run[n]: the call   *)
(* archive_dir(n) in its thread, [pc, files: the globbed files not yet     *)
(* moved, cur: the file copied and not yet unlinked, made: whether the     *)
(* temporary directory holds an archive, err]; year.next: the place in     *)
(* year.subfolders of the call whose exception main took; year.cancel: the *)
(* place of the next call Executor.map cancels after it.                   *)

MaxFolders == 3      \* most subfolders of the year directory
MaxMp4     == 2      \* most .mp4 files of one subfolder

FolderNames == 1..MaxFolders

\* a subfolder as batch_copy leaves it (recordings, no archive), or empty
FreshFolders == {[mp4 |-> 1..k, tgz |-> FALSE] : k \in 0..MaxMp4}

\* sorted(names, key=int), ascending
RECURSIVE Sorted(_)
Sorted(names) ==
    IF names = {} THEN <<>>
    ELSE LET least == CHOOSE n \in names : \A m \in names : n <= m
         IN  <<least>> \o Sorted(names \ {least})

\* get_subfolders: the sorted subfolders, the last one deleted unless
\* archive_all; del subfolders[-1] raises on an empty list
GetSubfolders(names, archive_all) ==
    LET subfolders == Sorted(names)
    IN  IF archive_all THEN [err |-> "none", subfolders |-> subfolders]
        ELSE IF Len(subfolders) = 0
             THEN [err |-> "IndexError", subfolders |-> <<>>]
             ELSE [err |-> "none",
                   subfolders |-> SubSeq(subfolders, 1, Len(subfolders) - 1)]

\* a call submitted to the pool and not started
Pending == [pc |-> "pending", files |-> {}, cur |-> 0, made |-> FALSE,
            err |-> "none"]

Submitted == {year.subfolders[i] : i \in 1..Len(year.subfolders)}

Finished(n) == year.run[n].pc \in {"returned", "raised", "cancelled"}

YearInit ==
    /\ FuncIdle /\ CsvIdle /\ ArchIdle /\ BatchIdle /\ CopyIdle
    /\ \E names \in SUBSET FolderNames :
       \E folders \in [names -> FreshFolders] :
          year = [pc |-> "idle", err |-> "none", before |-> folders,
                  folders |-> folders, archive_all |-> FALSE,
                  subfolders |-> <<>>, run |-> <<>>, next |-> 0,
                  cancel |-> 0]

\* lines 77-85: main(args) up to thread_map, which submits every call
ArchiveMainStart ==
    /\ year.pc = "idle"
    /\ \E archive_all \in BOOLEAN :
          LET g == GetSubfolders(DOMAIN year.folders, archive_all)
          IN  year' = IF g.err # "none"
                      THEN [year EXCEPT !.pc = "raised", !.err = g.err,
                                        !.archive_all = archive_all]
                      ELSE [year EXCEPT
                              !.pc = "mapping",
                              !.archive_all = archive_all,
                              !.subfolders = g.subfolders,
                              !.run = [n \in {g.subfolders[i] :
                                               i \in 1..Len(g.subfolders)}
                                         |-> Pending]]
    /\ UNCHANGED <<funcVars, csvVars, arch, batch, copy>>

\* archive_dir lines 14-20 in a pool thread: glob, return when there is
\* nothing, else make temp_dir; the pool goes on starting calls while main
\* cancels calls
YearArchiveDirStart ==
    /\ year.pc \in {"mapping", "unwinding"}
    /\ \E n \in Submitted :
          /\ year.run[n].pc = "pending"
          /\ year' = [year EXCEPT
                        !.run[n].pc = IF year.folders[n].mp4 = {}
                                      THEN "returned" ELSE "copy",
                        !.run[n].files = year.folders[n].mp4]
    /\ UNCHANGED <<funcVars, csvVars, arch, batch, copy>>

\* archive_dir line 23: shutil.copy(file, temp_dir / file.name)
YearCopyToTemp ==
    /\ \E n \in Submitted :
          /\ year.run[n].pc = "copy"
          /\ \E f \in year.run[n].files :
                year' = [year EXCEPT !.run[n].pc = "unlink",
                                     !.run[n].cur = f]
    /\ UNCHANGED <<funcVars, csvVars, arch, batch, copy>>

\* archive_dir line 24: file.unlink()
YearUnlink ==
    /\ \E n \in Submitted :
          /\ year.run[n].pc = "unlink"
          /\ year' = [year EXCEPT
                        !.run[n].pc = IF year.run[n].files = {year.run[n].cur}
                                      THEN "archive" ELSE "copy",
                        !.run[n].files = @ \ {year.run[n].cur},
                        !.run[n].cur = 0,
                        !.folders[n].mp4 = @ \ {year.run[n].cur}]
    /\ UNCHANGED <<funcVars, csvVars, arch, batch, copy>>

\* archive_dir line 26: create_archive, which may leave no recordings.tgz
YearCreateArchive ==
    /\ \E n \in Submitted, made \in BOOLEAN :
          /\ year.run[n].pc = "archive"
          /\ year' = [year EXCEPT !.run[n].pc = "assert",
                                  !.run[n].made = made]
    /\ UNCHANGED <<funcVars, csvVars, arch, batch, copy>>

\* archive_dir line 29: assert archive.is_file()
YearAssertArchive ==
    /\ \E n \in Submitted :
          /\ year.run[n].pc = "assert"
          /\ year' = IF year.run[n].made
                     THEN [year EXCEPT !.run[n].pc = "final"]
                     ELSE [year EXCEPT !.run[n].pc = "raised",
                                       !.run[n].err = "AssertionError"]
    /\ UNCHANGED <<funcVars, csvVars, arch, batch, copy>>

\* archive_dir line 31 and the end of the with block
YearFinalCopy ==
    /\ \E n \in Submitted :
          /\ year.run[n].pc = "final"
          /\ year' = [year EXCEPT !.run[n].pc = "returned",
                                  !.run[n].made = FALSE,
                                  !.folders[n].tgz = TRUE]
    /\ UNCHANGED <<funcVars, csvVars, arch, batch, copy>>

\* a step of archive_dir raises (shutil.copy, unlink, create_archive, the
\* final copy); a final copy that fails may leave a partial recordings.tgz
YearStepRaises ==
    /\ \E n \in Submitted, partial \in BOOLEAN :
          /\ year.run[n].pc \in {"copy", "unlink", "archive", "final"}
          /\ partial => year.run[n].pc = "final"
          /\ year' = [year EXCEPT
                        !.run[n] = [pc |-> "raised", files |-> {}, cur |-> 0,
                                    made |-> FALSE, err |-> "OSError"],
                        !.folders[n].tgz = IF partial THEN TRUE ELSE @]
    /\ UNCHANGED <<funcVars, csvVars, arch, batch, copy>>

\* thread_map takes the results in order; the first call that raised ends
\* it, and the iterator of Executor.map turns to the calls after it, the
\* last one submitted first
MapRaises ==
    /\ year.pc = "mapping"
    /\ \E k \in 1..Len(year.subfolders) :
          /\ \A i \in 1..(k - 1) : year.run[year.subfolders[i]].pc = "returned"
          /\ year.run[year.subfolders[k]].pc = "raised"
          /\ year' = [year EXCEPT
                        !.pc = "unwinding",
                        !.err = year.run[year.subfolders[k]].err,
                        !.next = k,
                        !.cancel = Len(year.subfolders)]
    /\ UNCHANGED <<funcVars, csvVars, arch, batch, copy>>

\* one future.cancel() of that loop: a pending call is cancelled, one that
\* a thread has started or ended is left as it is
YearCancelCall ==
    /\ year.pc = "unwinding"
    /\ year.cancel > year.next
    /\ LET n == year.subfolders[year.cancel]
       IN  year' = [year EXCEPT
                      !.cancel = @ - 1,
                      !.run[n].pc = IF @ = "pending" THEN "cancelled" ELSE @]
    /\ UNCHANGED <<funcVars, csvVars, arch, batch, copy>>

\* every call after the raised one has had its cancel() and the pool has
\* shut down, waiting for the calls that run: the exception leaves main
ArchiveMainRaises ==
    /\ year.pc = "unwinding"
    /\ year.cancel = year.next
    /\ \A n \in Submitted : Finished(n)
    /\ year' = [year EXCEPT !.pc = "raised"]
    /\ UNCHANGED <<funcVars, csvVars, arch, batch, copy>>

\* thread_map has every result: main returns
ArchiveMainReturn ==
    /\ year.pc = "mapping"
    /\ \A n \in Submitted : year.run[n].pc = "returned"
    /\ year' = [year EXCEPT !.pc = "returned"]
    /\ UNCHANGED <<funcVars, csvVars, arch, batch, copy>>

YearNext ==
    \/ ArchiveMainStart
    \/ YearArchiveDirStart
    \/ YearCopyToTemp
    \/ YearUnlink
    \/ YearCreateArchive
    \/ YearAssertArchive
    \/ YearFinalCopy
    \/ YearStepRaises
    \/ MapRaises
    \/ YearCancelCall
    \/ ArchiveMainRaises
    \/ ArchiveMainReturn

SpecYear == YearInit /\ [][YearNext]_vars

Newest(names) == CHOOSE n \in names : \A m \in names : m <= n

\* no step of an archive_dir call failed
NoStepFailed == year.err \notin {"OSError", "AssertionError"}

\* C12: archive.main on a year directory, when no file operation fails, ends
\* with every subfolder archived (no .mp4 left, and a recordings.tgz where
\* there were recordings) except, without archive_all, the one with the
\* greatest name, which keeps its .mp4 files and gets no recordings.tgz; for
\* every number of subfolders.
C12_AllButNewestArchived ==
    (year.pc \in {"returned", "raised"} /\ NoStepFailed) =>
        /\ year.pc = "returned"
        /\ \A n \in DOMAIN year.folders :
              IF year.archive_all \/ n # Newest(DOMAIN year.folders)
              THEN /\ year.folders[n].mp4 = {}
                   /\ year.before[n].mp4 # {} => year.folders[n].tgz
              ELSE year.folders[n] = year.before[n]

----------------------------------------------------------------------------
(* batch_copy.get_filelist.  Strings are sequences of characters.  A file  *)
(* name is <date>_<time>_<rest>, date and time one digit each here.         *)
(* copy.files[name]: an .mp4 of source_dir, [size: its st_size, dest: what  *)
(* is at destination_root/<year>/<month>/<name>].  glob yields the files in *)
(* an order the file system picks; the result is the list in that order.    *)

SourceDirs == {<<"s", "d">>, <<"m", "a", "x", "x">>}

\* two recordings, a placeholder name, and a name without a timestamp
CopyNames ==
    {<<"2", "_", "0", "_", "a">>, <<"3", "_", "1", "_", "a">>,
     <<"x", "x", "_", "x", "x", "_", "a">>, <<"b", "_", "0", "_", "a">>}

CutoffDates == {<<2, 0>>, <<3, 0>>}

SourceSizes == {0, 20}

Destinations ==
    {[is_file |-> FALSE, size |-> 0]}
        \cup {[is_file |-> TRUE, size |-> sz] : sz \in {0, 21, 22}}

\* max_size_diff = 0.05; k / (20 k) in floating point is the double 0.05
MaxSizeDiff == Rat(1, 20)

\* needle in haystack
Contains(haystack, needle) ==
    \E i \in 1..(Len(haystack) - Len(needle) + 1) :
        SubSeq(haystack, i, i + Len(needle) - 1) = needle

\* str(source_dir / name)
PathStr(dir, name) == dir \o <<"/">> \o name

\* str.split(sep)
RECURSIVE Split(_, _)
Split(str, sep) ==
    IF \A i \in 1..Len(str) : str[i] # sep THEN <<str>>
    ELSE LET k == CHOOSE i \in 1..Len(str) :
                      str[i] = sep /\ \A j \in 1..(i - 1) : str[j] # sep
         IN  <<SubSeq(str, 1, k - 1)>>
                 \o Split(SubSeq(str, k + 1, Len(str)), sep)

Digits == <<"0", "1", "2", "3">>

IsDigits(token) == Len(token) = 1 /\ \E d \in 1..Len(Digits) : Digits[d] = token[1]

DigitValue(c) == (CHOOSE d \in 1..Len(Digits) : Digits[d] = c) - 1

\* datetime.strptime("_".join(name.split("_")[:2]), "%Y%m%d_%H%M%S")
ParseDate(name) ==
    LET tokens == Split(name, "_")
    IN  IF Len(tokens) >= 2 /\ IsDigits(tokens[1]) /\ IsDigits(tokens[2])
        THEN [err |-> "none",
              date |-> <<DigitValue(tokens[1][1]), DigitValue(tokens[2][1])>>]
        ELSE [err |-> "ValueError", date |-> <<0, 0>>]

\* date < cutoff_date
DateLt(a, b) == a[1] < b[1] \/ (a[1] = b[1] /\ a[2] < b[2])

\* exists(source, destination); diff / source_size raises on an empty source
Exists(source_size, destination) ==
    IF ~destination.is_file THEN [err |-> "none", value |-> FALSE]
    ELSE LET diff == Abs(destination.size - source_size)
         IN  IF source_size = 0
             THEN [err |-> "ZeroDivisionError", value |-> FALSE]
             ELSE IF ~RatLe(Rat(diff, source_size), MaxSizeDiff)
                  THEN [err |-> "none", value |-> FALSE]
                  ELSE [err |-> "none", value |-> TRUE]

\* one pass of the loop body on file name: "skip", "append" or the exception
LoopBody(dir, files, cutoff_date, name) ==
    IF Contains(PathStr(dir, name), <<"x", "x">>) THEN "skip"
    ELSE LET d == ParseDate(name)
         IN  IF d.err # "none" THEN d.err
             ELSE IF DateLt(d.date, cutoff_date) THEN "skip"
             ELSE LET e == Exists(files[name].size, files[name].dest)
                  IN  IF e.err # "none" THEN e.err
                      ELSE IF ~e.value THEN "append" ELSE "skip"

\* lines 60-75 from the k-th file of the glob on, result being the list so
\* far; an exception ends the loop
RECURSIVE FilelistFrom(_, _, _, _, _, _)
FilelistFrom(dir, files, cutoff_date, order, k, result) ==
    IF k > Len(order) THEN [err |-> "none", result |-> result]
    ELSE LET outcome == LoopBody(dir, files, cutoff_date, order[k])
         IN  IF outcome = "skip"
             THEN FilelistFrom(dir, files, cutoff_date, order, k + 1, result)
             ELSE IF outcome = "append"
             THEN FilelistFrom(dir, files, cutoff_date, order, k + 1,
                               Append(result, order[k]))
             ELSE [err |-> outcome, result |-> <<>>]

\* get_filelist(source_dir, destination_root, cutoff_date), glob listing the
\* files in the order given
CopyGetFilelist(dir, files, cutoff_date, order) ==
    FilelistFrom(dir, files, cutoff_date, order, 1, <<>>)

CopyInit ==
    /\ FuncIdle /\ CsvIdle /\ ArchIdle /\ BatchIdle /\ YearIdle
    /\ \E dir \in SourceDirs, names \in SUBSET CopyNames,
          cutoff_date \in CutoffDates :
       \E files \in [names -> [size : SourceSizes, dest : Destinations]] :
          copy = [pc |-> "idle", source_dir |-> dir, files |-> files,
                  cutoff_date |-> cutoff_date, err |-> "none",
                  result |-> <<>>]

GetFilelistCall ==
    /\ copy.pc = "idle"
    /\ \E order \in Orders(DOMAIN copy.files) :
          LET r == CopyGetFilelist(copy.source_dir, copy.files,
                                   copy.cutoff_date, order)
          IN  copy' = [copy EXCEPT !.pc = "done", !.err = r.err,
                                   !.result = r.result]
    /\ UNCHANGED <<funcVars, csvVars, arch, batch, year>>

CopyNext == GetFilelistCall

SpecCopy == CopyInit /\ [][CopyNext]_vars

\* the destination holds the file with a matching size
PresentAtDestination(f) ==
    /\ f.dest.is_file
    /\ 20 * Abs(f.dest.size - f.size) <= f.size

\* the files the caller is to copy
ToCopy ==
    {n \in DOMAIN copy.files :
        /\ ~Contains(n, <<"x", "x">>)
        /\ ParseDate(n).err = "none"
        /\ ~DateLt(ParseDate(n).date, copy.cutoff_date)
        /\ ~PresentAtDestination(copy.files[n])}

\* every file name is a placeholder or carries a timestamp
NamesWellFormed ==
    \A n \in DOMAIN copy.files :
        Contains(n, <<"x", "x">>) \/ ParseDate(n).err = "none"

\* C13: on a directory of well-formed names, get_filelist returns exactly the
\* files whose name is not an 'xx' placeholder, whose timestamp is not earlier
\* than cutoff_date and that are not present at the destination with a
\* matching size, each once, for every source path and every file size.
C13_FilelistIsFilesToCopy ==
    (copy.pc = "done" /\ NamesWellFormed) =>
        /\ copy.err = "none"
        /\ {copy.result[i] : i \in 1..Len(copy.result)} = ToCopy
        /\ Len(copy.result) = Cardinality(ToCopy)

====
